---- MODULE Spec2Model ----
(***************************************************************************)
(* A model of the PSRP connection plugins of jborean93/ansible-psrp:       *)
(* the host sink (PSHost, PSHostUI), the connection (PSRPBaseConnection:   *)
(* exec_command, put_file, fetch_file, close, reset, _get_runspace) and    *)
(* the transport it drives (psrp.SyncRunspacePool, psrp.SyncPowerShell),   *)
(* of which only the calls made on it and their possible outcomes are      *)
(* modelled.                                                               *)
(*                                                                         *)
(* Text is a sequence of one-character strings, bytes a sequence of        *)
(* integers 0..255.  An Optional value is None (the empty sequence) or     *)
(* Some(x) (the sequence holding x).                                       *)
(***************************************************************************)
EXTENDS Integers, Sequences, FiniteSets, TLC

(* ------------------------------ bounds --------------------------------- *)

\* runspace pool objects one connection creates in a run
MaxPools == 2
\* characters a host buffer holds when the remote makes its last write to it
MaxBuf == 1
\* objects a pipeline outputs, and records it writes to its error stream, in
\* the runs that follow them one by one
MaxOut == 2

(* ----------------------------- Optional -------------------------------- *)

None == <<>>

Some(x) == <<x>>

(* ------------------------------- text ---------------------------------- *)

\* the characters the model encodes or decodes, with their code points
\* ("E9" stands for the one character U+00E9)
CharTable ==
  << [c |-> "\n", n |-> 10], [c |-> "\r", n |-> 13], [c |-> " ", n |-> 32],
     [c |-> "!", n |-> 33], [c |-> "#", n |-> 35], [c |-> "/", n |-> 47],
     [c |-> "1", n |-> 49], [c |-> ":", n |-> 58], [c |-> "A", n |-> 65],
     [c |-> "B", n |-> 66], [c |-> "D", n |-> 68], [c |-> "E", n |-> 69],
     [c |-> "G", n |-> 71], [c |-> "I", n |-> 73], [c |-> "N", n |-> 78],
     [c |-> "O", n |-> 79], [c |-> "R", n |-> 82], [c |-> "S", n |-> 83],
     [c |-> "U", n |-> 85], [c |-> "V", n |-> 86], [c |-> "W", n |-> 87],
     [c |-> "a", n |-> 97], [c |-> "d", n |-> 100], [c |-> "e", n |-> 101],
     [c |-> "x", n |-> 120], [c |-> "E9", n |-> 233] >>

\* ord(c)
Ord(c) == CharTable[CHOOSE i \in DOMAIN CharTable : CharTable[i].c = c].n

\* chr(n)
Chr(n) == CharTable[CHOOSE i \in DOMAIN CharTable : CharTable[i].n = n].c

HasChr(n) == \E i \in DOMAIN CharTable : CharTable[i].n = n

RECURSIVE Utf8DecodeFrom(_, _)
\* bytes.decode(): one- and two-byte UTF-8 sequences; any other byte is an
\* invalid start or continuation byte and raises UnicodeDecodeError
Utf8DecodeFrom(b, i) ==
  IF i > Len(b) THEN [ok |-> TRUE, text |-> <<>>]
  ELSE IF b[i] < 128 /\ HasChr(b[i])
    THEN LET r == Utf8DecodeFrom(b, i + 1)
         IN [ok |-> r.ok, text |-> <<Chr(b[i])>> \o r.text]
  ELSE IF /\ b[i] \in 194..223
          /\ i < Len(b)
          /\ b[i + 1] \in 128..191
          /\ HasChr((b[i] - 192) * 64 + (b[i + 1] - 128))
    THEN LET r == Utf8DecodeFrom(b, i + 2)
         IN [ok |-> r.ok,
             text |-> <<Chr((b[i] - 192) * 64 + (b[i + 1] - 128))>> \o r.text]
  ELSE [ok |-> FALSE, text |-> <<>>]

Utf8Decode(b) == Utf8DecodeFrom(b, 1)

RECURSIVE Utf8Encode(_)
\* str.encode(): code points below 128 are one byte, below 2048 two bytes
Utf8Encode(s) ==
  IF s = <<>> THEN <<>>
  ELSE LET n == Ord(Head(s))
       IN (IF n < 128 THEN <<n>> ELSE <<192 + (n \div 64), 128 + (n % 64)>>)
            \o Utf8Encode(Tail(s))

RECURSIVE Utf16leDecodeFrom(_, _)
\* bytes.decode("utf-16-le"): two bytes a code unit, low byte first; an odd
\* byte left over (truncated data) or a surrogate code unit standing alone
\* raises UnicodeDecodeError
Utf16leDecodeFrom(b, i) ==
  IF i > Len(b) THEN [ok |-> TRUE, text |-> <<>>]
  ELSE IF i = Len(b) THEN [ok |-> FALSE, text |-> <<>>]
  ELSE LET u == b[i] + 256 * b[i + 1]
       IN IF u \in 55296..57343 \/ ~HasChr(u)
            THEN [ok |-> FALSE, text |-> <<>>]
            ELSE LET r == Utf16leDecodeFrom(b, i + 2)
                 IN [ok |-> r.ok, text |-> <<Chr(u)>> \o r.text]

Utf16leDecode(b) == Utf16leDecodeFrom(b, 1)

RECURSIVE Join(_, _)
\* sep.join(parts)
Join(parts, sep) ==
  IF parts = <<>> THEN <<>>
  ELSE IF Len(parts) = 1 THEN parts[1]
  ELSE parts[1] \o sep \o Join(Tail(parts), sep)

\* s.startswith(p)
StartsWith(s, p) == Len(s) >= Len(p) /\ SubSeq(s, 1, Len(p)) = p

\* the characters str.splitlines() breaks a line at, among those of CharTable
LineBreaks == {"\n", "\r"}

\* s.splitlines()[0], for a non-empty s
FirstLine(s) ==
  LET brk == {i \in 1..Len(s) : s[i] \in LineBreaks}
  IN IF brk = {} THEN s
     ELSE SubSeq(s, 1, (CHOOSE i \in brk : \A j \in brk : i <= j) - 1)

\* x in s, for two texts
Contains(s, x) ==
  \E i \in 1..(Len(s) + 1) :
     i + Len(x) - 1 <= Len(s) /\ SubSeq(s, i, i + Len(x) - 1) = x

(* ------------------------------ base64 --------------------------------- *)

B64Alphabet ==
  << "A", "B", "C", "D", "E", "F", "G", "H", "I", "J", "K", "L", "M", "N",
     "O", "P", "Q", "R", "S", "T", "U", "V", "W", "X", "Y", "Z", "a", "b",
     "c", "d", "e", "f", "g", "h", "i", "j", "k", "l", "m", "n", "o", "p",
     "q", "r", "s", "t", "u", "v", "w", "x", "y", "z", "0", "1", "2", "3",
     "4", "5", "6", "7", "8", "9", "+", "/" >>

IsB64(c) == \E i \in DOMAIN B64Alphabet : B64Alphabet[i] = c

B64Val(c) == (CHOOSE i \in DOMAIN B64Alphabet : B64Alphabet[i] = c) - 1

RECURSIVE b64decode(_)
\* base64.b64decode of a string the pattern's group matched: four characters
\* give three bytes, "xx==" one byte and "xxx=" two
b64decode(s) ==
  IF Len(s) < 4 THEN <<>>
  ELSE LET v1 == B64Val(s[1])
           v2 == B64Val(s[2])
           b1 == v1 * 4 + (v2 \div 16)
       IN IF s[3] = "=" THEN <<b1>>
          ELSE LET v3 == B64Val(s[3])
                   b2 == (v2 % 16) * 16 + (v3 \div 4)
               IN IF s[4] = "=" THEN <<b1, b2>>
                  ELSE <<b1, b2, (v3 % 4) * 64 + B64Val(s[4])>>
                         \o b64decode(SubSeq(s, 5, Len(s)))

(* ------------------------- _COMMAND_PATTERN ---------------------------- *)

EncodedCommandLiteral ==
  << "-", "E", "n", "c", "o", "d", "e", "d", "C", "o", "m", "m", "a", "n",
     "d", " " >>

\* s matches (?:[A-Za-z0-9+/]{4})*(?:[A-Za-z0-9+/]{2}==|[A-Za-z0-9+/]{3}=)?
\* as a whole
B64Group(s) ==
  LET n == Len(s)
  IN /\ n % 4 = 0
     /\ \A i \in 1..(n - 2) : IsB64(s[i])
     /\ n > 0 =>
          \/ IsB64(s[n - 1]) /\ IsB64(s[n])
          \/ IsB64(s[n - 1]) /\ s[n] = "="
          \/ s[n - 1] = "=" /\ s[n] = "="

\* the group of a match of the pattern that starts at position i of cmd, or
\* None; $ matches at the end of cmd and before a newline that ends cmd
MatchAt(cmd, i) ==
  LET k == Len(EncodedCommandLiteral)
      rest == SubSeq(cmd, i + k, Len(cmd))
  IN IF i + k - 1 > Len(cmd) \/ SubSeq(cmd, i, i + k - 1) # EncodedCommandLiteral
       THEN None
     ELSE IF B64Group(rest) THEN Some(rest)
     ELSE IF /\ rest # <<>>
             /\ rest[Len(rest)] = "\n"
             /\ B64Group(SubSeq(rest, 1, Len(rest) - 1))
       THEN Some(SubSeq(rest, 1, Len(rest) - 1))
     ELSE None

\* _COMMAND_PATTERN.search(cmd): the group of the leftmost match (a match
\* starts at a "-"), or None
_COMMAND_PATTERN(cmd) ==
  LET hits == {i \in 1..Len(cmd) : cmd[i] = "-" /\ MatchAt(cmd, i) # None}
  IN IF hits = {} THEN None
     ELSE MatchAt(cmd, CHOOSE i \in hits : \A j \in hits : i <= j)

ExitSuffix ==
  << "\n", "e", "x", "i", "t", " ", "$", "L", "A", "S", "T", "E", "X", "I",
     "T", "C", "O", "D", "E" >>

(* ------------------------------ inputs --------------------------------- *)

\* "dir"
CmdPlain == <<"d", "i", "r">>

\* -EncodedCommand ZAA=  (the UTF-16LE bytes of "d")
CmdEncoded == EncodedCommandLiteral \o <<"Z", "A", "A", "=">>

\* -EncodedCommand ZA==  (one byte: not UTF-16LE text)
CmdEncodedOdd == EncodedCommandLiteral \o <<"Z", "A", "=", "=">>

\* -EncodedCommand ZAA=, a newline after it
CmdEncodedNewline == CmdEncoded \o <<"\n">>

\* a -EncodedCommand ZAA=
CmdEncodedAfterText == <<"a", " ">> \o CmdEncoded

\* -EncodedCommand ZABkAA==  (UTF-16LE of "dd")
CmdEncodedTwoGroups ==
  EncodedCommandLiteral \o <<"Z", "A", "B", "k", "A", "A", "=", "=">>

\* -EncodedCommand and a space, with nothing after
CmdEncodedNothing == EncodedCommandLiteral

\* -EncodedCommand ZAA  (no padding: not base64 groups of 4)
CmdUnpadded == EncodedCommandLiteral \o <<"Z", "A", "A">>

\* -EncodedCommand ZAA=x  (text after the base64)
CmdEncodedThenText == CmdEncoded \o <<"x">>

\* the commands given in the runs that look at the script made of each
Commands ==
  { CmdPlain, CmdEncoded, CmdEncodedOdd, CmdEncodedNewline,
    CmdEncodedAfterText, CmdEncodedTwoGroups, CmdEncodedNothing,
    CmdUnpadded, CmdEncodedThenText }

\* b"#!/x\na"
DataShebang == <<35, 33, 47, 120, 10, 97>>

\* b"a"
DataPlain == <<97>>

\* b"\xff": not UTF-8 text
DataNotText == <<255>>

\* the calls of exec_command made: a command and its in_data
ExecRequests ==
  { <<CmdPlain, None>>, <<CmdPlain, Some(<<>>)>>,
    <<CmdPlain, Some(DataShebang)>>,
    <<CmdPlain, Some(DataNotText)>>,
    <<CmdEncoded, Some(DataPlain)>>, <<CmdEncoded, Some(DataShebang)>>,
    <<CmdEncodedOdd, Some(DataShebang)>> }

\* what the remote writes through the host UI
HostTexts == {<<"a">>}

\* the str() of the objects a pipeline outputs, and of its error records,
\* one by one
OutputObjects == {<<"d">>, <<"x">>}

ErrorRecords == {<<"e">>}

\* the codes the remote exits with
ExitCodes == {0, 7}

\* what a pipeline that ran gives: its output objects and the records of
\* its error stream, each given by its str(), and had_errors
Results ==
  { [output |-> <<>>, errors |-> <<>>, had_errors |-> FALSE],
    [output |-> << <<"d">> >>, errors |-> << <<"e">> >>,
     had_errors |-> TRUE] }

(* --------------------------- error values ------------------------------ *)

TransportNames ==
  [psrp_local |->
     << "j", "b", "o", "r", "e", "a", "n", "9", "3", ".", "p", "s", "r",
        "p", ".", "p", "s", "r", "p", "_", "l", "o", "c", "a", "l" >>,
   psrp_winrm |->
     << "j", "b", "o", "r", "e", "a", "n", "9", "3", ".", "p", "s", "r",
        "p", ".", "p", "s", "r", "p", "_", "w", "s", "m", "a", "n" >>]

\* f"cannot run the interpreter '{interpreter}' on the {self.transport}
\* connection plugin"
InterpreterMessage(interpreter, transport) ==
  << "c", "a", "n", "n", "o", "t", " ", "r", "u", "n", " ", "t", "h", "e",
     " ", "i", "n", "t", "e", "r", "p", "r", "e", "t", "e", "r", " ", "'" >>
    \o interpreter
    \o <<"'", " ", "o", "n", " ", "t", "h", "e", " ">>
    \o transport
    \o << " ", "c", "o", "n", "n", "e", "c", "t", "i", "o", "n", " ", "p",
          "l", "u", "g", "i", "n" >>

AnsibleError(msg) == [type |-> "AnsibleError", msg |-> msg]

\* raised by bytes.decode
UnicodeDecodeError == [type |-> "UnicodeDecodeError", msg |-> <<>>]

\* raised by the transport (psrp), with the text the transport gives it
PSRPError == [type |-> "PSRPError", msg |-> <<>>]

(* ----------------------- connection plugins ---------------------------- *)

Plugins == {"psrp_local", "psrp_winrm"}

\* the options' defaults (DOCUMENTATION); an option without one is None
DefaultOptions ==
  [psrp_local |->
     [executable |-> "pwsh",
      arguments |-> <<"-NoProfile", "-NoLogo", "-ServerMode">>],
   psrp_winrm |->
     [hostname |-> "inventory_hostname", remote_user |-> None,
      remote_password |-> None, port |-> None, use_tls |-> FALSE,
      path |-> "wsman", auth |-> "negotiate",
      cert_validation |-> "validate"]]

\* psrp_local.Connection._get_connection_info
ProcessInfo(opt) ==
  [kind |-> "ProcessInfo", executable |-> opt.executable,
   arguments |-> opt.arguments]

\* (mutant) _get_connection_info taking the scheme from the port
WSManInfo_scheme_by_port(opt) ==
  LET port == IF opt.port = None
                THEN (IF opt.use_tls THEN 5986 ELSE 5985)
                ELSE opt.port[1]
  IN [kind |-> "WSManInfo",
      hostname |-> opt.hostname,
      scheme |-> IF port = 5986 THEN "https" ELSE "http",
      port |-> port,
      path |-> opt.path,
      verify |-> opt.cert_validation # "ignore",
      auth |-> opt.auth,
      username |-> opt.remote_user,
      password |-> opt.remote_password]

\* psrp_winrm.Connection._get_connection_info
WSManInfo(opt) ==
  [kind |-> "WSManInfo",
   hostname |-> opt.hostname,
   scheme |-> IF opt.use_tls THEN "https" ELSE "http",
   port |-> IF opt.port = None
              THEN (IF opt.use_tls THEN 5986 ELSE 5985)
              ELSE opt.port[1],
   path |-> opt.path,
   verify |-> opt.cert_validation # "ignore",
   auth |-> opt.auth,
   username |-> opt.remote_user,
   password |-> opt.remote_password]

\* self._get_connection_info(), as the plugin's subclass overrides it
_get_connection_info(plugin, opt) ==
  IF plugin = "psrp_local" THEN ProcessInfo(opt) ELSE WSManInfo(opt)

\* the import of psrp succeeded: the module defines its classes from psrp's,
\* so no connection exists without it
HAS_PSRP == TRUE

(* ------------------------------- state --------------------------------- *)

VARIABLES
  plugin,       \* the connection plugin this connection is an instance of
  options,      \* the values self.get_option gives
  th,           \* the threads that call the connection at the same time:
                \* where each is in its call
  heard,        \* what the remote wrote to the host, to stdout and to
                \* stderr, during the exec_command under way or last made,
                \* in the runs that keep this record (None in the others)
  _connected,   \* self._connected
  _runspace,    \* self._runspace: 0 for None, else the index of a pool
  pools,        \* the psrp.SyncRunspacePool objects created so far: the
                \* state the transport reports, the host and the
                \* connection info each was constructed with
  exit_code,    \* self._ps_host.exit_code
  ui_stdout,    \* self._ps_host_ui.stdout, by its getvalue()
  ui_stderr,    \* self._ps_host_ui.stderr, by its getvalue()
  call,         \* the call on the connection under way or last made: its
                \* arguments, the transport calls it made, the first and
                \* the last exit code the remote signalled during it, the
                \* host's exit code when it began, its outcome
  opens         \* transport opens that succeeded since the last close()
                \* that cleared the handle (or since construction)

vars ==
  <<plugin, options, th, heard, _connected, _runspace, pools, exit_code, ui_stdout, ui_stderr,
    call, opens>>

sink == <<exit_code, ui_stdout, ui_stderr>>

session == <<_connected, _runspace, pools>>

\* the threads of the runs in which two threads call the connection
Threads == {1, 2}

\* a thread that is in no call of the connection
ThreadIdle ==
  [pc |-> "idle", op |-> "none", status |-> "returned", rs |-> 0,
   made |-> 0, wrote |-> <<>>, signalled |-> None, rc |-> 0,
   stdout |-> <<>>]

\* a call record; status is "running" while exec_command waits in invoke.
\* recovering: a reset() that follows a call that raised the transport's
\* error
Call(op) ==
  [op |-> op, status |-> "returned", cmd |-> <<>>, in_data |-> None,
   scripts |-> <<>>, input |-> <<>>, rs |-> 0, calls |-> <<>>,
   first_signal |-> None, signal |-> None, pre_exit |-> 0,
   recovering |-> FALSE,
   err |-> None, output |-> <<>>,
   errors |-> <<>>, had_errors |-> FALSE, rc |-> 0, stdout |-> <<>>,
   stderr |-> <<>>]

\* PSRPBaseConnection.__init__, PSHost.__init__, PSHostUI.__init__, for a
\* connection of the psrp_winrm plugin (psrp_local differs from it in
\* _get_connection_info and in the transport's name alone)
Constructed ==
  /\ plugin = "psrp_winrm"
  /\ th = [t \in Threads |-> ThreadIdle]
  /\ _connected = FALSE
  /\ _runspace = 0
  /\ pools = <<>>
  /\ exit_code = 0
  /\ ui_stdout = <<>>
  /\ ui_stderr = <<>>
  /\ call = Call("__init__")
  /\ opens = 0

\* a connection constructed with the options' defaults
Init ==
  /\ Constructed
  /\ options = DefaultOptions[plugin]
  /\ heard = None

(* ---------------------------- the session ------------------------------ *)

\* the session fields a method starts from, with no transport call made and
\* nothing raised yet
Here ==
  [connected |-> _connected, runspace |-> _runspace, pools |-> pools,
   calls |-> <<>>, raised |-> None, opens |-> opens]

TransportCall(name, rs) == [call |-> name, rs |-> rs]

\* (mutant) _get_runspace without its check of the runspace held
_get_runspace_unchecked(s, opened) ==
  LET id == Len(s.pools) + 1
      openOk == opened = "Opened"
      pool == [state |-> opened, host |-> "_ps_host",
               info |-> _get_connection_info(plugin, options)]
  IN [connected |-> IF openOk THEN TRUE ELSE s.connected,
      runspace |-> id,
      pools |-> Append(s.pools, pool),
      calls |-> Append(s.calls, TransportCall("open", id)),
      raised |-> IF openOk THEN None ELSE Some(PSRPError),
      opens |-> IF openOk THEN s.opens + 1 ELSE s.opens]

\* _get_runspace, from the session fields s; the value it returns is the
\* runspace field of the result.  opened: the state the pool reports after
\* the transport's open, which succeeded if that is Opened and raised if not
_get_runspace(s, opened) ==
  IF ~HAS_PSRP THEN [s EXCEPT !.raised = Some(AnsibleError(<<>>))]
  ELSE IF s.runspace = 0
    THEN LET id == Len(s.pools) + 1
             openOk == opened = "Opened"
             pool == [state |-> opened,
                      host |-> "_ps_host",
                      info |-> _get_connection_info(plugin, options)]
         IN [connected |-> IF openOk THEN TRUE ELSE s.connected,
             runspace |-> id,
             pools |-> Append(s.pools, pool),
             calls |-> Append(s.calls, TransportCall("open", id)),
             raised |-> IF openOk THEN None ELSE Some(PSRPError),
             opens |-> IF openOk THEN s.opens + 1 ELSE s.opens]
  ELSE s

\* (mutant) close without its early return when not connected
close_unguarded(s, opened, closed) ==
  LET g == _get_runspace(s, opened)
      rs == g.runspace
      closeOk == closed = "Closed"
      q == [g EXCEPT !.calls = Append(@, TransportCall("state", rs))]
      c == IF q.pools[rs].state # "Opened" THEN q
           ELSE [q EXCEPT
                   !.calls = Append(@, TransportCall("close", rs)),
                   !.pools[rs].state = closed,
                   !.raised = IF closeOk THEN None ELSE Some(PSRPError)]
  IN IF g.raised # None THEN g
     ELSE IF c.raised # None THEN c
     ELSE [c EXCEPT !.runspace = 0, !.connected = FALSE, !.opens = 0]

\* close, from the session fields s.  closed: the state the pool reports
\* after the transport's close, which succeeded if that is Closed and raised
\* if not
close(s, opened, closed) ==
  IF ~s.connected THEN s
  ELSE LET g == _get_runspace(s, opened)
           rs == g.runspace
           closeOk == closed = "Closed"
           q == [g EXCEPT !.calls = Append(@, TransportCall("state", rs))]
           c == IF q.pools[rs].state # "Opened" THEN q
                ELSE [q EXCEPT
                        !.calls = Append(@, TransportCall("close", rs)),
                        !.pools[rs].state = closed,
                        !.raised = IF closeOk THEN None ELSE Some(PSRPError)]
       IN IF g.raised # None THEN g
          ELSE IF c.raised # None THEN c
          ELSE [c EXCEPT !.runspace = 0, !.connected = FALSE, !.opens = 0]

\* (mutant) reset without its close
reset_without_close(s, opened, closed) ==
  IF ~s.connected THEN s ELSE _get_runspace(s, opened)

\* reset, from the session fields s
reset(s, opened, closed) ==
  IF ~s.connected THEN s
  ELSE LET c == close(s, opened, closed)
       IN IF c.raised # None THEN c
          ELSE _get_runspace(c, opened)

\* the session fields of r become the connection's
SetSession(r) ==
  /\ _connected' = r.connected
  /\ _runspace' = r.runspace
  /\ pools' = r.pools
  /\ opens' = r.opens

\* the states a pool reports after its open returned (Opened) or raised
\* (BeforeOpen: it never opened)
OpenOutcomes == {"Opened", "BeforeOpen"}

\* the states a pool reports after its close returned (Closed) or raised
\* (Opened: it is still open; Broken: it no longer is)
CloseOutcomes == {"Closed", "Opened", "Broken"}

(* ----------------------------- host sink ------------------------------- *)

\* the transport delivers a host callback: a pipeline of the connection is
\* in invoke on an opened pool
Delivering ==
  /\ call.status = "running"
  /\ pools[call.rs].state = "Opened"

\* no host text written yet; at: how many objects the pipeline had output
\* when the remote first wrote to the host
NothingHeard == [out |-> <<>>, err |-> <<>>, at |-> None]

\* the record of what the remote wrote, text written to a buffer added
Hear(buffer, text) ==
  IF heard = None THEN None
  ELSE Some([heard[1] EXCEPT
               ![buffer] = @ \o text,
               !.at = IF @ = None THEN Some(Len(call.output)) ELSE @])

\* (mutant) set_should_exit that keeps an exit code already set
set_should_exit_once(code) ==
  /\ Delivering
  /\ exit_code' = IF exit_code # 0 THEN exit_code ELSE code
  /\ call' = [call EXCEPT
                !.first_signal = IF @ = None THEN Some(code) ELSE @,
                !.signal = Some(code)]
  /\ UNCHANGED <<plugin, options, th, heard, session, ui_stdout, ui_stderr,
               opens>>

\* PSHost.set_should_exit
set_should_exit(code) ==
  /\ Delivering
  /\ exit_code' = code
  /\ call' = [call EXCEPT
                !.first_signal = IF @ = None THEN Some(code) ELSE @,
                !.signal = Some(code)]
  /\ UNCHANGED <<plugin, options, th, heard, session, ui_stdout, ui_stderr,
               opens>>

\* PSHostUI.write
write(value) ==
  LET text == value
  IN /\ Delivering
     /\ Len(ui_stdout) <= MaxBuf
     /\ ui_stdout' = ui_stdout \o text
     /\ heard' = Hear("out", text)
     /\ UNCHANGED <<plugin, options, th, session, exit_code, ui_stderr, call,
                    opens>>

\* PSHostUI.write_debug_line
write_debug_line(line) ==
  LET text == <<"D", "E", "B", "U", "G", ":", " ">> \o line \o <<"\n">>
  IN /\ Delivering
     /\ Len(ui_stdout) <= MaxBuf
     /\ ui_stdout' = ui_stdout \o text
     /\ heard' = Hear("out", text)
     /\ UNCHANGED <<plugin, options, th, session, exit_code, ui_stderr, call,
                    opens>>

\* PSHostUI.write_error_line
write_error_line(line) ==
  LET text == line \o <<"\n">>
  IN /\ Delivering
     /\ Len(ui_stderr) <= MaxBuf
     /\ ui_stderr' = ui_stderr \o text
     /\ heard' = Hear("err", text)
     /\ UNCHANGED <<plugin, options, th, session, exit_code, ui_stdout, call,
                    opens>>

\* PSHostUI.write_line; line is None or Some(text)
write_line(line) ==
  LET text == (IF line = None \/ line[1] = <<>> THEN <<>> ELSE line[1])
                \o <<"\n">>
  IN /\ Delivering
     /\ Len(ui_stdout) <= MaxBuf
     /\ ui_stdout' = ui_stdout \o text
     /\ heard' = Hear("out", text)
     /\ UNCHANGED <<plugin, options, th, session, exit_code, ui_stderr, call,
                    opens>>

\* PSHostUI.write_verbose_line
write_verbose_line(line) ==
  LET text == <<"V", "E", "R", "B", "O", "S", "E", ":", " ">> \o line
                \o <<"\n">>
  IN /\ Delivering
     /\ Len(ui_stdout) <= MaxBuf
     /\ ui_stdout' = ui_stdout \o text
     /\ heard' = Hear("out", text)
     /\ UNCHANGED <<plugin, options, th, session, exit_code, ui_stderr, call,
                    opens>>

\* (mutant) write_warning_line without its tag
write_warning_line_untagged(line) ==
  LET text == line \o <<"\n">>
  IN /\ Delivering
     /\ Len(ui_stdout) <= MaxBuf
     /\ ui_stdout' = ui_stdout \o text
     /\ heard' = Hear("out", text)
     /\ UNCHANGED <<plugin, options, th, session, exit_code, ui_stderr, call,
                    opens>>

\* PSHostUI.write_warning_line
write_warning_line(line) ==
  LET text == <<"W", "A", "R", "N", "I", "N", "G", ":", " ">> \o line
                \o <<"\n">>
  IN /\ Delivering
     /\ Len(ui_stdout) <= MaxBuf
     /\ ui_stdout' = ui_stdout \o text
     /\ heard' = Hear("out", text)
     /\ UNCHANGED <<plugin, options, th, session, exit_code, ui_stderr, call,
                    opens>>

\* PSHostUI.write_progress
write_progress ==
  /\ Delivering
  /\ UNCHANGED vars

(* ---------------------------- exec_command ----------------------------- *)

\* in_data.decode() if in_data else None
DecodeInData(in_data) ==
  IF in_data = None \/ in_data[1] = <<>> THEN [ok |-> TRUE, value |-> None]
  ELSE LET d == Utf8Decode(in_data[1])
       IN [ok |-> d.ok, value |-> Some(d.text)]

\* input_data and input_data.startswith("#!")
IsShebang(input_data) ==
  /\ input_data # None
  /\ input_data[1] # <<>>
  /\ StartsWith(input_data[1], <<"#", "!">>)

\* input_data.splitlines()[0][2:]
Interpreter(input_data) ==
  LET line == FirstLine(input_data[1])
  IN SubSeq(line, 3, Len(line))

\* the script exec_command adds to the pipeline: the decoded payload of an
\* encoded command, else the command and the exit of its last exit code
Script(cmd, b64cmd) ==
  IF b64cmd # None
    THEN Utf16leDecode(b64decode(b64cmd[1])).text
    ELSE cmd \o ExitSuffix

\* (mutant) the shebang is looked for whatever the command
RejectsInterpreterOfAnyCommand(b64cmd, input_data) == IsShebang(input_data)

\* exec_command raises for the interpreter of a shebang: in the branch of an
\* encoded command only
RejectsInterpreter(b64cmd, input_data) ==
  b64cmd # None /\ IsShebang(input_data)

\* exec_command up to its call of ps.invoke, which it then waits in (the
\* call is "running") unless it raised before
exec_command(cmd, in_data, opened) ==
  /\ call.status # "running"
  /\ LET dec == DecodeInData(in_data)
         input_data == dec.value
         g == _get_runspace(Here, opened)
         b64cmd == _COMMAND_PATTERN(cmd)
         began == [Call("exec_command") EXCEPT
                     !.cmd = cmd, !.in_data = in_data,
                     !.pre_exit = exit_code]
         got == [began EXCEPT !.rs = g.runspace, !.calls = g.calls]
         added == [got EXCEPT !.scripts = <<Script(cmd, b64cmd)>>]
     IN IF ~dec.ok
          THEN /\ call' = [began EXCEPT !.status = "raised",
                                        !.err = Some(UnicodeDecodeError)]
               /\ UNCHANGED <<session, opens>>
          ELSE /\ Len(g.pools) <= MaxPools
               /\ SetSession(g)
               /\ call' =
                    IF g.raised # None
                      THEN [got EXCEPT !.status = "raised", !.rs = 0,
                                       !.err = g.raised]
                    ELSE IF /\ b64cmd # None
                            /\ ~Utf16leDecode(b64decode(b64cmd[1])).ok
                      THEN [got EXCEPT !.status = "raised",
                                       !.err = Some(UnicodeDecodeError)]
                    ELSE IF RejectsInterpreter(b64cmd, input_data)
                      THEN [added EXCEPT
                              !.status = "raised",
                              !.err = Some(AnsibleError(
                                 InterpreterMessage(
                                   Interpreter(input_data),
                                   TransportNames[plugin])))]
                    ELSE [added EXCEPT
                            !.status = "running",
                            !.input = <<input_data>>,
                            !.calls = Append(@, TransportCall("invoke",
                                                              g.runspace))]
  /\ heard' = (IF heard = None THEN None ELSE Some(NothingHeard))
  /\ UNCHANGED <<plugin, options, th, sink>>

\* the host buffer's text as exec_command appends it: when it is not empty
NonEmptyText(text) == IF text # <<>> THEN <<text>> ELSE <<>>

\* rc = self._ps_host.exit_code or (1 if ps.had_errors else 0)
rc(exit, had_errors) ==
  IF exit # 0 THEN exit ELSE IF had_errors THEN 1 ELSE 0

\* (mutant) exec_command putting the host's text before the pipeline's
invoke_returns_host_first(output, had_errors, errors) ==
  /\ call.status = "running"
  /\ pools[call.rs].state = "Opened"
  /\ LET stdout == (IF ui_stdout # <<>> THEN <<ui_stdout>> ELSE <<>>)
                     \o output
         stderr == (IF ui_stderr # <<>> THEN <<ui_stderr>> ELSE <<>>)
                     \o errors
     IN call' = [call EXCEPT
                   !.status = "returned",
                   !.output = output,
                   !.had_errors = had_errors,
                   !.errors = errors,
                   !.rc = rc(exit_code, had_errors),
                   !.stdout = Utf8Encode(Join(stdout, <<"\n">>)),
                   !.stderr = Utf8Encode(Join(stderr, <<"\n">>))]
  /\ exit_code' = 0
  /\ ui_stdout' = <<>>
  /\ ui_stderr' = <<>>
  /\ UNCHANGED <<plugin, options, th, heard, session, opens>>

\* ps.invoke returned output and exec_command runs to its return
invoke_returns(output, had_errors, errors) ==
  /\ call.status = "running"
  /\ pools[call.rs].state = "Opened"
  /\ LET stdout == output
                     \o (IF ui_stdout # <<>> THEN <<ui_stdout>> ELSE <<>>)
         stderr == errors
                     \o (IF ui_stderr # <<>> THEN <<ui_stderr>> ELSE <<>>)
     IN call' = [call EXCEPT
                   !.status = "returned",
                   !.output = output,
                   !.had_errors = had_errors,
                   !.errors = errors,
                   !.rc = rc(exit_code, had_errors),
                   !.stdout = Utf8Encode(Join(stdout, <<"\n">>)),
                   !.stderr = Utf8Encode(Join(stderr, <<"\n">>))]
  /\ exit_code' = 0
  /\ ui_stdout' = <<>>
  /\ ui_stderr' = <<>>
  /\ UNCHANGED <<plugin, options, th, heard, session, opens>>

\* ps.invoke raised (the pipeline failed, the pool is not opened, or the
\* transport broke) and exec_command raises with it
invoke_raises ==
  /\ call.status = "running"
  /\ call' = [call EXCEPT !.status = "raised", !.err = Some(PSRPError)]
  /\ UNCHANGED <<plugin, options, th, heard, session, sink, opens>>

\* during ps.invoke the pipeline outputs an object, which psrp collects in
\* the list invoke returns; o is its str()
emit_output(o) ==
  /\ Delivering
  /\ Len(call.output) < MaxOut
  /\ call' = [call EXCEPT !.output = Append(@, o)]
  /\ UNCHANGED <<plugin, options, th, heard, session, sink, opens>>

\* during ps.invoke the pipeline writes a record to its error stream, which
\* psrp collects in ps.streams.error; e is its str()
emit_error(e) ==
  /\ Delivering
  /\ Len(call.errors) < MaxOut
  /\ call' = [call EXCEPT !.errors = Append(@, e)]
  /\ UNCHANGED <<plugin, options, th, heard, session, sink, opens>>

(* ------------------------ put_file, fetch_file ------------------------- *)

\* put_file (name "copy_file") and fetch_file (name "fetch_file"): the
\* transport's copy succeeds only on an opened pool
Transfer(op, name, opened, copyOk) ==
  /\ call.status # "running"
  /\ LET g == _get_runspace(Here, opened)
         called == Append(g.calls, TransportCall(name, g.runspace))
     IN /\ Len(g.pools) <= MaxPools
        /\ SetSession(g)
        /\ call' =
             IF g.raised # None
               THEN [Call(op) EXCEPT !.status = "raised", !.err = g.raised,
                                     !.calls = g.calls]
             ELSE IF copyOk /\ g.pools[g.runspace].state = "Opened"
               THEN [Call(op) EXCEPT !.rs = g.runspace, !.calls = called]
             ELSE [Call(op) EXCEPT !.status = "raised", !.rs = g.runspace,
                                   !.err = Some(PSRPError),
                                   !.calls = called]
  /\ UNCHANGED <<plugin, options, th, heard, sink>>

put_file(opened, copyOk) ==
  Transfer("put_file", "copy_file", opened, copyOk)

fetch_file(opened, copyOk) ==
  Transfer("fetch_file", "fetch_file", opened, copyOk)

(* ---------------------------- close, reset ----------------------------- *)

Closing(opened, closed) ==
  /\ call.status # "running"
  /\ LET r == close(Here, opened, closed)
     IN /\ Len(r.pools) <= MaxPools
        /\ SetSession(r)
        /\ call' = [Call("close") EXCEPT
                      !.status = IF r.raised # None THEN "raised"
                                 ELSE "returned",
                      !.err = r.raised, !.calls = r.calls]
  /\ UNCHANGED <<plugin, options, th, heard, sink>>

Resetting(opened, closed) ==
  /\ call.status # "running"
  /\ LET r == reset(Here, opened, closed)
     IN /\ Len(r.pools) <= MaxPools
        /\ SetSession(r)
        /\ call' = [Call("reset") EXCEPT
                      !.status = IF r.raised # None THEN "raised"
                                 ELSE "returned",
                      !.recovering =
                         /\ call.op \in {"exec_command", "put_file",
                                         "fetch_file"}
                         /\ call.err = Some(PSRPError),
                      !.err = r.raised, !.calls = r.calls]
  /\ UNCHANGED <<plugin, options, th, heard, sink>>

(* ---------------------------- the transport ---------------------------- *)

\* the connection to the remote is lost: the pool the connection holds
\* reports Broken
TransportBreak ==
  /\ _runspace # 0
  /\ pools[_runspace].state = "Opened"
  /\ pools' = [pools EXCEPT ![_runspace].state = "Broken"]
  /\ UNCHANGED <<plugin, options, th, heard, _connected, _runspace, sink,
               call, opens>>

(* ------------------- two threads on one connection -------------------- *)

\* The methods as two threads run them on one connection object.  No lock
\* is taken anywhere in the class, and a thread can be switched out between
\* any two statements and while it waits in a call of the transport; each
\* action below is a run of statements of one thread with no such call
\* inside it.  pc names the statement the thread t is at.

\* what the pipeline of each thread writes to the host, and the exit code
\* it signals
ThreadText == [t \in Threads |-> IF t = 1 THEN <<"a">> ELSE <<"d">>]

ThreadExit == [t \in Threads |-> t + 2]

ThreadOps == {"exec_command", "put_file", "fetch_file"}

\* the thread t calls exec_command (with no in_data), put_file or
\* fetch_file, and comes to self._get_runspace()
thread_calls(t, op) ==
  /\ th[t].pc = "idle"
  /\ th' = [th EXCEPT ![t] = [ThreadIdle EXCEPT !.pc = "check", !.op = op]]
  /\ UNCHANGED <<plugin, options, heard, session, sink, call, opens>>

\* _get_runspace: if not self._runspace
thread_checks(t) ==
  /\ th[t].pc = "check"
  /\ HAS_PSRP
  /\ th' = [th EXCEPT ![t].pc = IF _runspace = 0 THEN "create"
                                ELSE "return"]
  /\ UNCHANGED <<plugin, options, heard, session, sink, call, opens>>

\* _get_runspace: self._runspace = psrp.SyncRunspacePool(...), and the
\* thread enters self._runspace.open()
thread_creates(t) ==
  /\ th[t].pc = "create"
  /\ Len(pools) < MaxPools
  /\ LET id == Len(pools) + 1
     IN /\ pools' = Append(pools,
                           [state |-> "BeforeOpen", host |-> "_ps_host",
                            info |-> _get_connection_info(plugin, options)])
        /\ _runspace' = id
        /\ th' = [th EXCEPT ![t].pc = "open", ![t].made = id]
  /\ UNCHANGED <<plugin, options, heard, _connected, sink, call, opens>>

\* the open the thread waits in returns, and the thread sets
\* self._connected, or raises, and the call of the thread with it
thread_opened(t, opened) ==
  /\ th[t].pc = "open"
  /\ pools' = [pools EXCEPT ![th[t].made].state = opened]
  /\ IF opened = "Opened"
       THEN /\ _connected' = TRUE
            /\ opens' = opens + 1
            /\ th' = [th EXCEPT ![t].pc = "return"]
       ELSE /\ th' = [th EXCEPT ![t].pc = "idle", ![t].status = "raised"]
            /\ UNCHANGED <<_connected, opens>>
  /\ UNCHANGED <<plugin, options, heard, _runspace, sink, call>>

\* _get_runspace: return self._runspace
thread_gets(t) ==
  /\ th[t].pc = "return"
  /\ th' = [th EXCEPT ![t].pc = "use", ![t].rs = _runspace]
  /\ UNCHANGED <<plugin, options, heard, session, sink, call, opens>>

\* exec_command: the pipeline is made on the runspace got, the script
\* added, and the thread enters ps.invoke
thread_invokes(t) ==
  /\ th[t].pc = "use"
  /\ th[t].op = "exec_command"
  /\ th' = [th EXCEPT ![t].pc = "invoke"]
  /\ UNCHANGED <<plugin, options, heard, session, sink, call, opens>>

\* put_file, fetch_file: psrp.copy_file / psrp.fetch_file on the runspace
\* got, which succeeds only on an opened pool
thread_copies(t) ==
  /\ th[t].pc = "use"
  /\ th[t].op \in {"put_file", "fetch_file"}
  /\ th' = [th EXCEPT
              ![t].pc = "idle",
              ![t].status = IF pools[th[t].rs].state = "Opened"
                              THEN "returned" ELSE "raised"]
  /\ UNCHANGED <<plugin, options, heard, session, sink, call, opens>>

\* the pipeline of the thread t is in invoke on an opened pool
ThreadDelivering(t) ==
  /\ th[t].pc = "invoke"
  /\ pools[th[t].rs].state = "Opened"

\* PSHostUI.write, called for the pipeline of the thread t
thread_write(t) ==
  /\ ThreadDelivering(t)
  /\ Len(ui_stdout) <= MaxBuf
  /\ th[t].wrote = <<>>
  /\ ui_stdout' = ui_stdout \o ThreadText[t]
  /\ th' = [th EXCEPT ![t].wrote = @ \o ThreadText[t]]
  /\ UNCHANGED <<plugin, options, heard, session, exit_code, ui_stderr, call,
                 opens>>

\* PSHost.set_should_exit, called for the pipeline of the thread t
thread_set_should_exit(t) ==
  /\ ThreadDelivering(t)
  /\ th[t].signalled = None
  /\ exit_code' = ThreadExit[t]
  /\ th' = [th EXCEPT ![t].signalled = Some(ThreadExit[t])]
  /\ UNCHANGED <<plugin, options, heard, session, ui_stdout, ui_stderr, call,
                 opens>>

\* ps.invoke of the thread t returns (no output, no errors) and its
\* exec_command runs to its return
thread_invoke_returns(t) ==
  /\ ThreadDelivering(t)
  /\ th' = [th EXCEPT
              ![t].pc = "idle",
              ![t].rc = rc(exit_code, FALSE),
              ![t].stdout = Utf8Encode(Join(NonEmptyText(ui_stdout),
                                            <<"\n">>))]
  /\ exit_code' = 0
  /\ ui_stdout' = <<>>
  /\ ui_stderr' = <<>>
  /\ UNCHANGED <<plugin, options, heard, session, call, opens>>

\* ps.invoke of the thread t raises
thread_invoke_raises(t) ==
  /\ th[t].pc = "invoke"
  /\ th' = [th EXCEPT ![t].pc = "idle", ![t].status = "raised"]
  /\ UNCHANGED <<plugin, options, heard, session, sink, call, opens>>

NextThreads ==
  \E t \in Threads :
     \/ \E op \in ThreadOps : thread_calls(t, op)
     \/ thread_checks(t)
     \/ thread_creates(t)
     \/ \E opened \in OpenOutcomes : thread_opened(t, opened)
     \/ thread_gets(t)
     \/ thread_invokes(t)
     \/ thread_copies(t)
     \/ thread_write(t)
     \/ thread_set_should_exit(t)
     \/ thread_invoke_returns(t)
     \/ thread_invoke_raises(t)

SpecThreads == Init /\ [][NextThreads]_vars

(* -------------------------- the specification -------------------------- *)

\* the outcomes of a transport open to tell apart: it is only made when no
\* runspace is held
OpenChoices == IF _runspace = 0 THEN OpenOutcomes ELSE {"Opened"}

\* the outcomes of a transport close to tell apart: it is only made on a
\* pool that reports Opened
CloseChoices ==
  IF _runspace # 0 /\ pools[_runspace].state = "Opened"
    THEN CloseOutcomes ELSE {"Closed"}

\* the host callbacks the remote makes use of in the runs of Spec
Callback ==
  \/ \E code \in ExitCodes : set_should_exit(code)
  \/ \E value \in HostTexts : write(value)
  \/ \E line \in HostTexts : write_error_line(line)

\* a call of each method of the connection, with what it is given and what
\* the transport does during it
ExecStep ==
  \E req \in ExecRequests, opened \in OpenChoices :
     exec_command(req[1], req[2], opened)

PutStep == \E opened \in OpenChoices, copyOk \in BOOLEAN : put_file(opened, copyOk)

FetchStep ==
  \E opened \in OpenChoices, copyOk \in BOOLEAN : fetch_file(opened, copyOk)

CloseStep ==
  \E opened \in OpenChoices, closed \in CloseChoices : Closing(opened, closed)

ResetStep ==
  \E opened \in OpenOutcomes, closed \in CloseChoices :
     Resetting(opened, closed)

Next ==
  \/ ExecStep
  \/ \E res \in Results :
       invoke_returns(res.output, res.had_errors, res.errors)
  \/ invoke_raises
  \/ Callback
  \/ PutStep
  \/ FetchStep
  \/ CloseStep
  \/ ResetStep
  \/ TransportBreak

Spec == Init /\ [][Next]_vars

\* the runs that follow an invocation's streams one by one: the objects
\* output, the error records and the host's text, in every order, with the
\* record of what the remote wrote kept
InitStreams ==
  /\ Constructed
  /\ options = DefaultOptions[plugin]
  /\ heard = Some(NothingHeard)

NextStreams ==
  \/ \E opened \in OpenChoices : exec_command(CmdPlain, None, opened)
  \/ \E o \in OutputObjects : emit_output(o)
  \/ \E e \in ErrorRecords : emit_error(e)
  \/ Callback
  \/ \E had_errors \in BOOLEAN :
       invoke_returns(call.output, had_errors, call.errors)
  \/ invoke_raises

SpecStreams == InitStreams /\ [][NextStreams]_vars

\* the runs in which the remote calls every method of the host
HostLines == {None, Some(<<>>)} \cup {Some(l) : l \in HostTexts}

NextHost ==
  \/ \E opened \in OpenChoices : exec_command(CmdPlain, None, opened)
  \/ \E code \in ExitCodes : set_should_exit(code)
  \/ \E value \in HostTexts : write(value)
  \/ \E line \in HostTexts : write_debug_line(line)
  \/ \E line \in HostTexts : write_error_line(line)
  \/ \E line \in HostLines : write_line(line)
  \/ \E line \in HostTexts : write_verbose_line(line)
  \/ \E line \in HostTexts : write_warning_line(line)
  \/ write_progress
  \/ \E res \in Results :
       invoke_returns(res.output, res.had_errors, res.errors)
  \/ invoke_raises

SpecHost == Init /\ [][NextHost]_vars

\* the runs of connections of psrp_winrm with the options set in every way:
\* the port not set, set to either default or to another; cert_validation
\* either of its choices (not set, it is "validate", its default)
WinRMOptions ==
  { [DefaultOptions.psrp_winrm EXCEPT
       !.port = p, !.use_tls = u, !.cert_validation = c] :
      p \in {None, Some(5985), Some(5986), Some(443)},
      u \in BOOLEAN,
      c \in {"ignore", "validate"} }

InitWinRM ==
  /\ Constructed
  /\ options \in WinRMOptions
  /\ heard = None

NextWinRM ==
  \/ PutStep
  \/ CloseStep
  \/ ResetStep

SpecWinRM == InitWinRM /\ [][NextWinRM]_vars

\* the runs that look at the script exec_command makes of each command
NextScript ==
  \/ \E cmd \in Commands, opened \in OpenChoices :
       exec_command(cmd, None, opened)
  \/ \E res \in Results :
       invoke_returns(res.output, res.had_errors, res.errors)
  \/ invoke_raises
  \/ CloseStep

SpecScript == Init /\ [][NextScript]_vars

(* ------------------------------ claims --------------------------------- *)

\* the transport calls of a kind that the call c made, by their place in c
CallsOf(c, name) == {i \in DOMAIN c.calls : c.calls[i].call = name}

\* c called the pipeline's invoke
Invoked(c) == CallsOf(c, "invoke") # {}

\* the payload begins with the bytes of "#!"
ShebangPayload(in_data) ==
  /\ in_data # None
  /\ Len(in_data[1]) >= 2
  /\ in_data[1][1] = 35
  /\ in_data[1][2] = 33

\* the command ends with -EncodedCommand and a base64 payload
EncodedRequest(cmd) == _COMMAND_PATTERN(cmd) # None

\* the interpreter path of a shebang payload: the text between "#!" and the
\* end of its first line
InterpreterPath(in_data) ==
  LET text == Utf8Decode(in_data[1]).text
      ends == {i \in 1..Len(text) : text[i] = "\n"}
      stop == IF ends = {} THEN Len(text) + 1
              ELSE CHOOSE i \in ends : \A j \in ends : i <= j
  IN SubSeq(text, 3, stop - 1)

\* c raised the error that names the interpreter of its payload
NamesInterpreter(c) ==
  /\ c.status = "raised"
  /\ c.err[1].type = "AnsibleError"
  /\ Contains(c.err[1].msg, InterpreterPath(c.in_data))

\* C1: after every exec_command call, whether it returned or raised, the
\* host sink's stdout and stderr buffers are empty and its exit code is 0.
C1_SinkResetAfterExec ==
  (call.op = "exec_command" /\ call.status # "running")
    => (ui_stdout = <<>> /\ ui_stderr = <<>> /\ exit_code = 0)

\* C2: a pipeline is invoked, or a bulk copy issued, only on a runspace
\* whose transport open succeeded and which has not been closed since.
C2_CommandsOnlyOnOpened ==
  \A i \in DOMAIN call.calls :
     call.calls[i].call \in {"invoke", "copy_file", "fetch_file"}
       => pools[call.calls[i].rs].state \notin {"BeforeOpen", "Closed"}

\* C3: an exec_command whose command matches the -EncodedCommand pattern and
\* whose payload begins with "#!" fails with an error whose message contains
\* the interpreter path, and the pipeline's invoke is never called in it.
C3_EncodedShebangRejected ==
  (/\ call.op = "exec_command"
   /\ EncodedRequest(call.cmd)
   /\ ShebangPayload(call.in_data))
    => (NamesInterpreter(call) /\ ~Invoked(call))

\* C4: when exec_command rejects a shebang payload, the connected flag, the
\* held runspace handle and the transport's session state are the same after
\* the call as before it, from every starting state.
C4_RejectionLeavesSession ==
  [][(/\ ExecStep
      /\ call'.status = "raised"
      /\ call'.err[1].type = "AnsibleError")
       => UNCHANGED session]_vars

DemandStep ==
  /\ call.status # "running"
  /\ call' # call
  /\ call'.op \in {"exec_command", "put_file", "fetch_file"}

\* the call c came to ask for the runspace: a put_file, a fetch_file, or an
\* exec_command whose in_data decoded
Demanded(c) == c.op = "exec_command" => DecodeInData(c.in_data).ok

\* C6: opening is lazy and idempotent.  No transport open is issued at
\* construction; an exec_command, put_file or fetch_file that asks for the
\* runspace while none is held issues exactly one transport open; one that
\* asks while the session is open issues none and runs on the runspace
\* already held, which stays held; and at most one transport open succeeds
\* between two closes.
C6_LazyIdempotentOpen ==
  /\ pools = <<>> /\ _runspace = 0 /\ ~_connected /\ opens = 0
  /\ [][/\ opens' <= 1
        /\ (DemandStep /\ Demanded(call'))
             => /\ _runspace = 0
                     => Cardinality(CallsOf(call', "open")) = 1
                /\ _connected
                     => /\ CallsOf(call', "open") = {}
                        /\ _runspace' = _runspace
                        /\ call'.rs = _runspace]_vars

\* C6 witness: an operation on a session already open reused its runspace
C6_ReusedOpenSession ==
  /\ call.op \in {"exec_command", "put_file", "fetch_file"}
  /\ call.status = "returned"
  /\ _connected
  /\ call.rs = _runspace
  /\ CallsOf(call, "open") = {}
  /\ opens = 1

\* no pool of the connection has ever opened
NeverOpened == \A i \in DOMAIN pools : pools[i].state = "BeforeOpen"

\* C7: close() and reset() on a connection that has never been opened raise
\* nothing, make no transport call (no open, no close, no state query) and
\* leave the connected flag, the runspace handle and the host sink as they
\* were.
C7_CloseResetNoOpWhenNeverOpened ==
  [][((CloseStep \/ ResetStep) /\ NeverOpened)
       => /\ call'.status = "returned"
          /\ call'.calls = <<>>
          /\ UNCHANGED <<session, sink>>]_vars

\* C7 witness: close() or reset() was called on a connection never opened
C7_CalledWhenNeverOpened ==
  /\ call.op \in {"close", "reset"}
  /\ NeverOpened
  /\ ~_connected

\* C8: close() on a connected session issues a transport close if and only
\* if the pool reports Opened, and after every close() call the connected
\* flag is false and no runspace handle is held.
C8_CloseAlwaysClears ==
  [][CloseStep
       => /\ _connected
               => (CallsOf(call', "close") # {}
                     <=> pools[_runspace].state = "Opened")
          /\ ~_connected'
          /\ _runspace' = 0]_vars

\* C9: reset() on a connected session queries and closes the runspace held
\* and then, the close done, issues exactly one transport open, of a pool
\* newly created with the same connection info and the same host, in that
\* order and with no open before the close; when both succeed the connection
\* is connected again and holds that new, opened runspace.
C9_ResetClosesThenReopens ==
  [][(ResetStep /\ _connected)
       => LET old == _runspace
              wasOpened == pools[old].state = "Opened"
              made == call'.calls
              opened == CallsOf(call', "open")
              closeRaised == wasOpened /\ pools'[old].state # "Closed"
          IN /\ Len(made) >= 1 /\ made[1] = TransportCall("state", old)
             /\ wasOpened
                  => Len(made) >= 2 /\ made[2] = TransportCall("close", old)
             /\ ~wasOpened => CallsOf(call', "close") = {}
             /\ opened = IF closeRaised THEN {} ELSE {Len(made)}
             /\ Len(made) = (IF wasOpened THEN 2 ELSE 1)
                              + Cardinality(opened)
             /\ \A i \in opened :
                   /\ made[i].rs \notin DOMAIN pools
                   /\ pools'[made[i].rs].info = pools[old].info
                   /\ pools'[made[i].rs].host = pools[old].host
             /\ call'.status = "returned"
                  => /\ opened # {}
                     /\ _connected'
                     /\ _runspace' # old
                     /\ \A i \in opened : _runspace' = made[i].rs
                     /\ pools'[_runspace'].state = "Opened"]_vars

\* C9 witness: a reset() closed the opened runspace it held and opened a new
\* one
C9_ResetReopened ==
  /\ call.op = "reset"
  /\ call.status = "returned"
  /\ _connected
  /\ CallsOf(call, "close") # {}
  /\ CallsOf(call, "open") # {}
  /\ pools[_runspace].state = "Opened"

\* C10: the exit code an exec_command returns is the host's exit code at the
\* time invoke returned (the last code the remote signalled during the
\* invocation, or, none signalled, the code the host held before) when that
\* is not 0, else 1 when the pipeline had errors and 0 when it had none.
C10_ExitCodeDerivation ==
  (call.op = "exec_command" /\ call.status = "returned")
    => LET atReturn == IF call.signal # None THEN call.signal[1]
                       ELSE call.pre_exit
       IN call.rc = (IF atReturn # 0 THEN atReturn
                     ELSE IF call.had_errors THEN 1 ELSE 0)

\* C10 witness: the remote signalled 7 and then 0, the pipeline had errors,
\* and the call returned 1
C10_LastSignalUsed ==
  /\ call.op = "exec_command"
  /\ call.status = "returned"
  /\ call.first_signal = Some(7)
  /\ call.signal = Some(0)
  /\ call.had_errors
  /\ call.rc = 1

\* the text or the list x when it is not empty, as a list's element
NonEmpty(x) == IF x # <<>> THEN <<x>> ELSE <<>>

\* s ends with t
EndsWith(s, t) ==
  /\ Len(t) <= Len(s)
  /\ SubSeq(s, Len(s) - Len(t) + 1, Len(s)) = t

\* ps.invoke returns and exec_command with it
Returning == call.status = "running" /\ call'.status = "returned"

\* C11: the stdout an exec_command returns is the objects the pipeline
\* output, in the order it output them, followed by the text in the host's
\* stdout buffer, which ends with what the remote wrote during the call in
\* the order it wrote it, all joined by newlines; and so the stderr, of the
\* error records and the host's stderr buffer; whenever during the
\* invocation the objects, the records and the text were emitted.
C11_OutputThenHostText ==
  [][Returning
       => /\ call'.stdout
               = Utf8Encode(Join(call.output \o NonEmpty(ui_stdout),
                                 <<"\n">>))
          /\ call'.stderr
               = Utf8Encode(Join(call.errors \o NonEmpty(ui_stderr),
                                 <<"\n">>))
          /\ EndsWith(ui_stdout, heard[1].out)
          /\ EndsWith(ui_stderr, heard[1].err)]_vars

\* C11 witness: the remote wrote to the host before the pipeline output its
\* last object, and the call returned two different objects, an error
\* record and host text of both buffers
C11_TextBeforeLastObject ==
  /\ call.op = "exec_command"
  /\ call.status = "returned"
  /\ Len(call.output) = 2
  /\ call.output[1] # call.output[2]
  /\ call.errors # <<>>
  /\ heard[1].out # <<>>
  /\ heard[1].err # <<>>
  /\ heard[1].at = Some(0)

\* text is base64 as the claim reads it: groups of 4 characters of the
\* alphabet, the last of which may be 2 characters and == or 3 and =
PaddedBase64(text) ==
  LET n == Len(text)
  IN /\ n % 4 = 0
     /\ \A i \in 1..n :
          \/ IsB64(text[i])
          \/ text[i] = "=" /\ i = n /\ n >= 4 /\ IsB64(text[n - 2])
               /\ IsB64(text[n - 3])
          \/ text[i] = "=" /\ i = n - 1 /\ text[n] = "="

\* the places where the command holds -EncodedCommand, a space and base64
\* up to its end
EncodedTails(cmd) ==
  LET w == Len(EncodedCommandLiteral)
  IN {i \in 1..Len(cmd) :
        /\ i + w - 1 <= Len(cmd)
        /\ SubSeq(cmd, i, i + w - 1) = EncodedCommandLiteral
        /\ PaddedBase64(SubSeq(cmd, i + w, Len(cmd)))}

\* the script the claim gives a command
ClaimedScript(cmd) ==
  IF EncodedTails(cmd) # {}
    THEN LET i == CHOOSE i \in EncodedTails(cmd) :
                    \A j \in EncodedTails(cmd) : i <= j
             b64 == SubSeq(cmd, i + Len(EncodedCommandLiteral), Len(cmd))
         IN Utf16leDecode(b64decode(b64)).text
    ELSE cmd \o <<"\n", "e", "x", "i", "t", " ", "$", "L", "A", "S", "T",
                  "E", "X", "I", "T", "C", "O", "D", "E">>

\* C12: the script of a call that invoked the pipeline is one, and it is,
\* of a command that ends with -EncodedCommand and base64 (groups of 4, the
\* last padded with = or == or not at all, up to the end of the string), the
\* UTF-16LE text of the base64 and nothing more, and of every other command
\* the command, a newline and exit $LASTEXITCODE.
C12_ScriptByCommandClass ==
  (call.op = "exec_command" /\ Invoked(call))
    => call.scripts = <<ClaimedScript(call.cmd)>>

\* the thread t is inside exec_command
InExecute(t) == th[t].op = "exec_command" /\ th[t].pc # "idle"

\* C13: exec_command calls made on one connection by two threads are
\* serialized: the two are never inside exec_command at once, and a call
\* that returns gives the host text and the exit code of its own
\* invocation, not of the other's.
C13_ExecuteSerialized ==
  /\ ~(InExecute(1) /\ InExecute(2))
  /\ \A t \in Threads :
       (th[t].op = "exec_command" /\ th[t].pc = "idle"
          /\ th[t].status = "returned")
         => /\ th[t].stdout = Utf8Encode(th[t].wrote)
            /\ th[t].rc = (IF th[t].signalled = None THEN 0
                           ELSE th[t].signalled[1])

\* C14: threads that call exec_command, put_file or fetch_file on a
\* connection not yet open cause at most one transport open, all get the
\* same runspace, and no pool that opened is left without the connection
\* holding it.
C14_OneSessionPerConnection ==
  /\ Len(pools) <= 1
  /\ \A t, u \in Threads :
       (th[t].rs # 0 /\ th[u].rs # 0) => th[t].rs = th[u].rs
  /\ \A i \in DOMAIN pools : pools[i].state = "Opened" => _runspace = i

\* the host appends text to its stdout buffer, or to its stderr buffer, and
\* changes nothing else of the sink; the call it is made in goes on
AppendsOut(text) ==
  /\ ui_stdout' = ui_stdout \o text
  /\ UNCHANGED <<ui_stderr, exit_code>>
  /\ call'.status = "running"

AppendsErr(text) ==
  /\ ui_stderr' = ui_stderr \o text
  /\ UNCHANGED <<ui_stdout, exit_code>>
  /\ call'.status = "running"

\* C15: each write of the host goes to one buffer, at its end: write the
\* text as it is, to stdout; write_line the line, or nothing when there is
\* none, and a newline, to stdout; the debug, verbose and warning lines
\* "DEBUG: ", "VERBOSE: ", "WARNING: ", the line and a newline, to stdout;
\* the error line the line and a newline, to stderr.  The other buffer and
\* the exit code stay as they were, and the call goes on.
C15_HostRoutesWrites ==
  [][/\ \A v \in HostTexts : write(v) => AppendsOut(v)
     /\ \A l \in HostLines :
          write_line(l)
            => AppendsOut((IF l = None THEN <<>> ELSE l[1]) \o <<"\n">>)
     /\ \A l \in HostTexts :
          /\ write_debug_line(l)
               => AppendsOut(<<"D", "E", "B", "U", "G", ":", " ">> \o l
                               \o <<"\n">>)
          /\ write_verbose_line(l)
               => AppendsOut(<<"V", "E", "R", "B", "O", "S", "E", ":", " ">>
                               \o l \o <<"\n">>)
          /\ write_warning_line(l)
               => AppendsOut(<<"W", "A", "R", "N", "I", "N", "G", ":", " ">>
                               \o l \o <<"\n">>)
          /\ write_error_line(l) => AppendsErr(l \o <<"\n">>)]_vars

\* C15 witness: a warning line was written after text, an error line too,
\* with an exit code set
C15_WarningAfterText ==
  /\ call.status = "running"
  /\ ui_stdout = <<"a", "W", "A", "R", "N", "I", "N", "G", ":", " ", "a",
                   "\n">>
  /\ ui_stderr = <<"a", "\n">>
  /\ exit_code = 7

\* C16: the connection info of a psrp_winrm connection has the port that is
\* set, or, none set, 5986 with use_tls and 5985 without; the scheme https
\* with use_tls and http without, whatever the port; and verify false when
\* cert_validation is "ignore" and true when it is anything else or not set.
C16_WinRMConnectionInfo ==
  \A i \in DOMAIN pools :
     LET info == pools[i].info
     IN /\ info.port = (IF options.port # None THEN options.port[1]
                        ELSE IF options.use_tls THEN 5986 ELSE 5985)
        /\ info.scheme = (IF options.use_tls THEN "https" ELSE "http")
        /\ info.verify = (options.cert_validation # "ignore")

\* C16 witness: a pool was made for TLS on a port set to 5985, with
\* cert_validation left at its default
C16_TlsOnSetPort ==
  /\ pools # <<>>
  /\ options.use_tls
  /\ options.port = Some(5985)
  /\ options.cert_validation = DefaultOptions.psrp_winrm.cert_validation
  /\ pools[1].info.scheme = "https"
  /\ pools[1].info.port = 5985
  /\ pools[1].info.verify

\* the pools a call had the transport open
OpensOf(c) ==
  { c.calls[i].rs : i \in { j \in DOMAIN c.calls : c.calls[j].call = "open" } }

\* C17: when exec_command, put_file or fetch_file has raised the transport's
\* error (the first open's failure included) and reset() is called and
\* returns, the next command, every open made for it having succeeded, runs on a
\* runspace pool opened by that reset or by the command itself.
C17_ResetThenRetryOnFreshSession ==
  [][( /\ call.op = "reset"
       /\ call.status = "returned"
       /\ call.recovering
       /\ DemandStep
       /\ Demanded(call')
       /\ \A i \in OpensOf(call) \cup OpensOf(call') :
             pools'[i].state = "Opened" )
       => call'.rs \in OpensOf(call) \cup OpensOf(call')]_vars

\* C18: exec_command invokes the pipeline with the decoded payload as its
\* one input when in_data is given and not empty, and with no input at all
\* (an empty sequence, not a sequence of one null) when in_data is absent
\* or empty.
C18_InputPayloadOrNothing ==
  (call.op = "exec_command" /\ Invoked(call))
    => call.input =
         (IF call.in_data = None \/ call.in_data = Some(<<>>)
            THEN <<>>
            ELSE <<Some(Utf8Decode(call.in_data[1]).text)>>)

\* C19: whatever exec_command, put_file, fetch_file, close and reset calls
\* were made and whichever of the transport's operations failed, _connected
\* is true exactly when a runspace pool is held, and a pool that is held is
\* one whose open succeeded.
C19_ConnectedIffHandleHeld ==
  /\ _connected <=> _runspace # 0
  /\ _runspace # 0 => pools[_runspace].state # "BeforeOpen"

\* C20: what an exec_command call returns is made of what happened during
\* that call alone: its exit code from the code signalled during the call
\* (0 when none was) and the pipeline's errors, its stdout and stderr from
\* the pipeline's output and error records and the text the host was given
\* during the call; nothing written or signalled during an earlier call is
\* in it.
C20_ResultOfThisCallAlone ==
  (call.op = "exec_command" /\ call.status = "returned")
    => /\ call.rc = rc(IF call.signal = None THEN 0 ELSE call.signal[1],
                       call.had_errors)
       /\ call.stdout =
            Utf8Encode(Join(call.output \o NonEmpty(heard[1].out), <<"\n">>))
       /\ call.stderr =
            Utf8Encode(Join(call.errors \o NonEmpty(heard[1].err), <<"\n">>))

====
